---- MODULE Spec2Model ----
(***************************************************************************)
(* Kinship graph derivation of csv_to_gedcomx (src/src/utils.py):          *)
(* get_age, the kinship navigators, add_generations and filter_relatives.  *)
(***************************************************************************)
EXTENDS Integers, Sequences, FiniteSets, TLC

\* ------------------------------------------------------------------ bounds
NumPersons == 3         \* persons of a store handed to add_generations
MaxRels == 3            \* relationships of a store
FilterPersons == 4      \* persons of a store handed to filter_relatives
MaxRelatives == 8       \* entries kept of filter_relatives' relatives list
MaxStack == 4           \* cap on the length of filter_relatives' work stack

PersonIds == 1..NumPersons
FilterIds == 1..FilterPersons

\* ------------------------------------------------------------------ state
VARIABLES
    persons,        \* root.persons: sequence of person ids
    facts,          \* person id -> person.facts, a sequence of Fact records
    relationships,  \* root.relationships: sequence of Relationship records
    today,          \* datetime.date.today(), as a formal date
    calls,          \* number of add_generations calls made so far
    gen,            \* outcome of the last add_generations call
    fpc,            \* position of the filter_relatives call
    anchor,         \* filter_relatives' person_id argument
    relatives,      \* filter_relatives' relatives list
    stack,          \* filter_relatives' work stack
    turn,           \* parity of the number of loop iterations filter_relatives has made
    before,         \* root.persons and root.relationships when filter_relatives was called
    asOf,           \* get_age's date argument (None when omitted)
    ageOut,         \* outcome of the get_age call
    sibOut          \* the last get_siblings call: its person and the list it returned

genVars == <<calls, gen>>
filterVars == <<fpc, anchor, relatives, stack, turn, before>>
ageVars == <<asOf, ageOut>>
navVars == <<sibOut>>
vars == <<persons, facts, relationships, today, genVars, filterVars, ageVars, navVars>>

\* ------------------------------------------------------------------ values
None == <<>>

\* models.Fact(type=..., date=..., value=...)
Fact(t, d, v) == [type |-> t, date |-> d, value |-> v]

\* models.Relationship(type=..., person1=..., person2=...)
Relationship(t, p1, p2) == [type |-> t, person1 |-> p1, person2 |-> p2]

RECURSIVE SeqMin(_)
SeqMin(s) == IF Len(s) = 1 THEN s[1]
             ELSE LET m == SeqMin(Tail(s)) IN IF s[1] <= m THEN s[1] ELSE m

InSeq(x, s) == \E i \in 1..Len(s) : s[i] = x

\* ------------------------------------------------------------------ str / int
Digits == <<"0", "1", "2", "3", "4", "5", "6", "7", "8", "9">>

RECURSIVE NatStr(_)
NatStr(n) == IF n < 10 THEN <<Digits[n + 1]>>
             ELSE Append(NatStr(n \div 10), Digits[(n % 10) + 1])

\* str(generation)
PyStr(n) == IF n < 0 THEN <<"-">> \o NatStr(-n) ELSE NatStr(n)

DigitVal(c) == CHOOSE i \in 0..9 : Digits[i + 1] = c

RECURSIVE StrNat(_)
StrNat(s) == IF s = <<>> THEN 0
             ELSE 10 * StrNat(SubSeq(s, 1, Len(s) - 1)) + DigitVal(s[Len(s)])

\* int(fact.value)
PyInt(s) == IF s[1] = "-" THEN -StrNat(Tail(s)) ELSE StrNat(s)

\* ------------------------------------------------------------------ dates
\* A formal date '+YYYY', '+YYYY-MM' or '+YYYY-MM-DD' is the sequence of its
\* numeric fields; FormalLen is len(date.formal).
FormalLen(f) == 5 + 3 * (Len(f) - 1)

IsLeap(y) == (y % 4 = 0) /\ ((y % 100 # 0) \/ (y % 400 = 0))

DaysInMonth(y, m) ==
    IF m = 2 THEN (IF IsLeap(y) THEN 29 ELSE 28)
    ELSE IF m \in {4, 6, 9, 11} THEN 30 ELSE 31

RECURSIVE DaysBeforeMonth(_, _)
DaysBeforeMonth(y, m) ==
    IF m = 1 THEN 0 ELSE DaysBeforeMonth(y, m - 1) + DaysInMonth(y, m - 1)

DaysBeforeYear(y) ==
    LET p == y - 1 IN 365 * p + (p \div 4) - (p \div 100) + (p \div 400)

\* datetime.date(y, m, d).toordinal()
Ordinal(d) == DaysBeforeYear(d[1]) + DaysBeforeMonth(d[1], d[2]) + d[3]

date_to_python_date(formal) ==
    LET f1 == IF FormalLen(formal) <= 5 THEN formal \o <<1>> ELSE formal
        f2 == IF FormalLen(f1) <= 8 THEN f1 \o <<1>> ELSE f1
    IN  Ordinal(f2)

\* ------------------------------------------------------------------ get_age
\* The outcome of a get_age call: a returned age, or a raised ValueError.
Returned(n) == [raised |-> "", msg |-> "", value |-> n]
ValueError(m) == [raised |-> "ValueError", msg |-> m, value |-> 0]

FactsOfType(fs, t) == SelectSeq(fs, LAMBDA f : f.type = t)

\* get_age with the day count divided towards zero instead of floored
get_age_truncating(fs, date, now) ==
    LET birth == FactsOfType(fs, "birth") IN
    IF Len(birth) <= 0 THEN ValueError("Birth is unknown")
    ELSE IF birth[1].date = None THEN ValueError("Birth is unknown")
    ELSE LET birthday == date_to_python_date(birth[1].date)
             date_parsed == IF date # None THEN date_to_python_date(date)
                            ELSE date_to_python_date(now)
             days == date_parsed - birthday
             age == IF days < 0 THEN -((-days) \div 365) ELSE days \div 365
         IN  IF age < 0 THEN ValueError("Event happened before birth!")
             ELSE Returned(age)

\* get_age that reads the last birth fact instead of the first
get_age_last_birth(fs, date, now) ==
    LET birth == FactsOfType(fs, "birth") IN
    IF Len(birth) <= 0 THEN ValueError("Birth is unknown")
    ELSE IF birth[Len(birth)].date = None THEN ValueError("Birth is unknown")
    ELSE LET birthday == date_to_python_date(birth[Len(birth)].date)
             date_parsed == IF date # None THEN date_to_python_date(date)
                            ELSE date_to_python_date(now)
             age == (date_parsed - birthday) \div 365
         IN  IF age < 0 THEN ValueError("Event happened before birth!")
             ELSE Returned(age)

\* get_age(person, date); date = None stands for the omitted argument
get_age(fs, date, now) ==
    LET birth == FactsOfType(fs, "birth") IN
    IF Len(birth) <= 0 THEN ValueError("Birth is unknown")
    ELSE IF birth[1].date = None THEN ValueError("Birth is unknown")
    ELSE LET birthday == date_to_python_date(birth[1].date)
             date_parsed == IF date # None THEN date_to_python_date(date)
                            ELSE date_to_python_date(now)
             age == (date_parsed - birthday) \div 365
         IN  IF age < 0 THEN ValueError("Event happened before birth!")
             ELSE Returned(age)

\* ------------------------------------------------------------------ navigator
ReferenceError == [error |-> "ReferenceError"]

find_person_by_id(ps, person_id) ==
    IF InSeq(person_id, ps) THEN person_id ELSE ReferenceError

RECURSIVE MapFind(_, _, _)
\* [find_person_by_id(root, pick(r)) for r in rs], end selecting "person1"/"person2"
MapFind(ps, rs, end) ==
    IF rs = <<>> THEN <<>>
    ELSE <<find_person_by_id(ps, IF end = "person1" THEN Head(rs).person1
                                 ELSE Head(rs).person2)>>
         \o MapFind(ps, Tail(rs), end)

\* get_children that returns the first child only
get_children_first(ps, rels, person) ==
    LET cs == MapFind(ps, SelectSeq(rels, LAMBDA r : r.type = "parentChild"
                                                    /\ r.person1 = person),
                      "person2")
    IN  IF cs = <<>> THEN <<>> ELSE <<cs[1]>>

\* utils.py:136-146
get_children(ps, rels, person) ==
    MapFind(ps, SelectSeq(rels, LAMBDA r : r.type = "parentChild" /\ r.person1 = person),
            "person2")

get_parents(ps, rels, person) ==
    MapFind(ps, SelectSeq(rels, LAMBDA r : r.type = "parentChild" /\ r.person2 = person),
            "person1")

RECURSIVE MapOther(_, _, _)
MapOther(ps, rs, person) ==
    IF rs = <<>> THEN <<>>
    ELSE <<find_person_by_id(ps, IF person = Head(rs).person2 THEN Head(rs).person1
                                 ELSE Head(rs).person2)>>
         \o MapOther(ps, Tail(rs), person)

\* get_partners that always takes person2 instead of the other endpoint
get_partners_person2(ps, rels, person) ==
    MapFind(ps, SelectSeq(rels, LAMBDA r : r.type = "couple"
                                /\ (r.person1 = person \/ r.person2 = person)),
            "person2")

get_partners(ps, rels, person) ==
    MapOther(ps, SelectSeq(rels, LAMBDA r : r.type = "couple"
                                 /\ (r.person1 = person \/ r.person2 = person)),
             person)

\* get_siblings without the "s != person" test
get_siblings_with_self(ps, rels, person) ==
    SelectSeq(ps, LAMBDA s :
        Len(SelectSeq(get_parents(ps, rels, person),
                      LAMBDA p : InSeq(p, get_parents(ps, rels, s)))) > 0)

get_siblings(ps, rels, person) ==
    SelectSeq(ps, LAMBDA s :
        s # person
        /\ Len(SelectSeq(get_parents(ps, rels, person),
                         LAMBDA p : InSeq(p, get_parents(ps, rels, s)))) > 0)

\* ------------------------------------------------------------------ add_generations
\* HasGeneration that lets a person through until it holds two generationNumber facts
HasGeneration_two(fs) == Len(FactsOfType(fs, "generationNumber")) > 1

\* person.facts holds a generationNumber fact (utils.py:67, 120-122)
HasGeneration(fs) == Len(FactsOfType(fs, "generationNumber")) > 0

RECURSIVE add_generations_recursive(_, _, _, _, _)
RECURSIVE RecurseEach(_, _, _, _, _)

\* add_generations_recursive that also steps down a generation for children
add_generations_recursive_children_up(ps, rels, st, person, generation) ==
    IF HasGeneration(st.facts[person]) THEN st
    ELSE LET st1 == [st EXCEPT
                        !.facts[person] =
                            Append(@, Fact("generationNumber", None, PyStr(generation))),
                        !.stamps = Append(@, <<person, generation>>)]
             st2 == RecurseEach(ps, rels, st1, get_parents(ps, rels, person),
                                generation - 1)
             st3 == RecurseEach(ps, rels, st2, get_children(ps, rels, person),
                                generation - 1)
         IN  [st3 EXCEPT !.yielded = Append(@, generation)]

\* st = [facts, yielded, stamps]: the persons' facts, the values the generator
\* has yielded so far, and the (person, generation) pairs stamped so far.
add_generations_recursive(ps, rels, st, person, generation) ==
    IF HasGeneration(st.facts[person]) THEN st
    ELSE LET st1 == [st EXCEPT
                        !.facts[person] =
                            Append(@, Fact("generationNumber", None, PyStr(generation))),
                        !.stamps = Append(@, <<person, generation>>)]
             st2 == RecurseEach(ps, rels, st1, get_parents(ps, rels, person),
                                generation - 1)
             st3 == RecurseEach(ps, rels, st2, get_children(ps, rels, person),
                                generation + 1)
         IN  [st3 EXCEPT !.yielded = Append(@, generation)]

\* for p in people: yield from add_generations_recursive(root, p, generation)
RecurseEach(ps, rels, st, people, generation) ==
    IF people = <<>> THEN st
    ELSE RecurseEach(ps, rels,
                     add_generations_recursive(ps, rels, st, Head(people), generation),
                     Tail(people), generation)

\* the couple relationships that contain the person (utils.py:74-76)
CouplesOf(rels, person) ==
    SelectSeq(rels, LAMBDA r : r.type = "couple"
                               /\ (person = r.person1 \/ person = r.person2))

\* FirstPartner that takes the last couple relationship instead of the first
FirstPartner_last(ps, rels, person) ==
    LET cs == CouplesOf(rels, person)
        r == cs[Len(cs)]
    IN  find_person_by_id(ps, IF r.person2 = person THEN r.person1 ELSE r.person2)

\* partner is the other person of the first such relationship (utils.py:70-72)
FirstPartner(ps, rels, person) ==
    LET r == CouplesOf(rels, person)[1]
    IN  find_person_by_id(ps, IF r.person2 = person THEN r.person1 ELSE r.person2)

\* StragglerStep that never raises min_generation
StragglerStep_keep_min(ps, rels, acc, person) ==
    IF HasGeneration(acc.facts[person]) THEN acc
    ELSE IF CouplesOf(rels, person) = <<>>
    THEN [acc EXCEPT !.warnings = Append(@, person)]
    ELSE LET partner == FirstPartner(ps, rels, person)
             pg == FactsOfType(acc.facts[partner], "generationNumber")
         IN  IF pg = <<>>
             THEN [acc EXCEPT !.warnings = Append(@, person)]
             ELSE LET res == add_generations_recursive(ps, rels,
                                [facts |-> acc.facts, yielded |-> <<>>,
                                 stamps |-> acc.stamps],
                                person, PyInt(pg[1].value))
                  IN  [acc EXCEPT
                          !.facts = res.facts,
                          !.stamps = res.stamps,
                          !.via = Append(@, <<person, partner>>)]

\* One iteration of "for person in not_reached" (utils.py:65-87).
\* acc = [facts, min_generation, stamps, via, warnings]
StragglerStep(ps, rels, acc, person) ==
    IF HasGeneration(acc.facts[person]) THEN acc
    ELSE IF CouplesOf(rels, person) = <<>>
    THEN [acc EXCEPT !.warnings = Append(@, person)]
    ELSE LET partner == FirstPartner(ps, rels, person)
             pg == FactsOfType(acc.facts[partner], "generationNumber")
         IN  IF pg = <<>>
             THEN [acc EXCEPT !.warnings = Append(@, person)]
             ELSE LET res == add_generations_recursive(ps, rels,
                                [facts |-> acc.facts, yielded |-> <<>>,
                                 stamps |-> acc.stamps],
                                person, PyInt(pg[1].value))
                      new_min == -SeqMin(res.yielded)
                  IN  [acc EXCEPT
                          !.facts = res.facts,
                          !.stamps = res.stamps,
                          !.min_generation = IF new_min > @ THEN new_min ELSE @,
                          !.via = Append(@, <<person, partner>>)]

RECURSIVE Stragglers(_, _, _, _)
Stragglers(ps, rels, acc, i) ==
    IF i > Len(ps) THEN acc
    ELSE Stragglers(ps, rels, StragglerStep(ps, rels, acc, ps[i]), i + 1)

FirstIndexOfType(fs, t) ==
    IF \E i \in 1..Len(fs) : fs[i].type = t
    THEN CHOOSE i \in 1..Len(fs) : fs[i].type = t /\ \A j \in 1..(i - 1) : fs[j].type # t
    ELSE 0

YearsPerGeneration == 25
MaxAge == 120

\* NormalizePerson without the is_dead test
NormalizePerson_ignore_death(fs, min_generation, generation_start, age_start) ==
    LET idx == FirstIndexOfType(fs, "generationNumber") IN
    IF idx = 0 THEN fs
    ELSE LET generation == PyInt(fs[idx].value) + min_generation
             fs1 == [fs EXCEPT ![idx].value = PyStr(generation)]
         IN  IF (generation_start - generation) * YearsPerGeneration + age_start > MaxAge
             THEN Append(fs1, Fact("death", None, None))
             ELSE fs1

\* Body of the normalisation loop for one person (utils.py:96-107).
NormalizePerson(fs, min_generation, generation_start, age_start) ==
    LET idx == FirstIndexOfType(fs, "generationNumber") IN
    IF idx = 0 THEN fs
    ELSE LET generation == PyInt(fs[idx].value) + min_generation
             fs1 == [fs EXCEPT ![idx].value = PyStr(generation)]
             is_dead == Len(FactsOfType(fs1, "death")) > 0
         IN  IF ~is_dead
                /\ (generation_start - generation) * YearsPerGeneration + age_start > MaxAge
             THEN Append(fs1, Fact("death", None, None))
             ELSE fs1

RECURSIVE Normalize(_, _, _, _, _)
Normalize(ps, fa, min_generation, age_start, i) ==
    IF i > Len(ps) THEN fa
    ELSE Normalize(ps,
                   [fa EXCEPT ![ps[i]] =
                       NormalizePerson(@, min_generation, min_generation, age_start)],
                   min_generation, age_start, i + 1)

\* age_start = get_age(root.persons[0]), 0 on ValueError (utils.py:90-93)
AgeStart(fs, now) ==
    LET a == get_age(fs, None, now) IN IF a.raised = "ValueError" THEN 0 ELSE a.value

NoCall == [status |-> "none", min_generation |-> 0, age_start |-> 0,
           stamps |-> <<>>, via |-> <<>>, warnings |-> <<>>, before |-> <<>>]

\* add_generations(root): the facts after the call and the call's outcome
add_generations(ps, rels, fa, now) ==
    LET seed == add_generations_recursive(ps, rels,
                    [facts |-> fa, yielded |-> <<>>, stamps |-> <<>>], ps[1], 0)
    IN  IF seed.yielded = <<>>
        THEN \* min() of an empty sequence
             [facts |-> fa, out |-> [NoCall EXCEPT !.status = "ValueError", !.before = fa]]
        ELSE LET acc == Stragglers(ps, rels,
                            [facts |-> seed.facts,
                             min_generation |-> -SeqMin(seed.yielded),
                             stamps |-> seed.stamps, via |-> <<>>, warnings |-> <<>>], 1)
                 age_start == AgeStart(acc.facts[ps[1]], now)
             IN  [facts |-> Normalize(ps, acc.facts, acc.min_generation, age_start, 1),
                  out |-> [status |-> "ok", min_generation |-> acc.min_generation,
                           age_start |-> age_start, stamps |-> acc.stamps,
                           via |-> acc.via, warnings |-> acc.warnings, before |-> fa]]

\* ------------------------------------------------------------------ stores
MaxCalls == 2

RelTypes == {"couple", "parentChild"}
RelSet(ids) == {Relationship(t, a, b) : t \in RelTypes, a \in ids, b \in ids}

RECURSIVE SeqsUpTo(_, _)
SeqsUpTo(S, n) ==
    IF n = 0 THEN {<<>>}
    ELSE LET shorter == SeqsUpTo(S, n - 1)
         IN  shorter \cup {Append(s, x) : s \in {t \in shorter : Len(t) = n - 1}, x \in S}

PersonSeq(n) == [i \in 1..n |-> i]

\* parse_person: a maritalStatus fact, then the birth fact of a row with a birth
\* date, then a death fact when the row records a death or the person is older
\* than 120 (parser.py:65, 81-113)
MaritalStatus == Fact("maritalStatus", None, <<"Single">>)
BirthChoices == {None, <<1920>>, <<1890>>}
Today == <<2020, 1, 1>>

ParsedFacts(birth, dead, now) ==
    LET fs == <<MaritalStatus>>
              \o (IF birth = None THEN <<>> ELSE <<Fact("birth", birth, None)>>)
        a == get_age(fs, None, now)
        too_old == IF a.raised = "ValueError" THEN FALSE ELSE a.value > MaxAge
    IN  fs \o (IF dead \/ too_old THEN <<Fact("death", None, None)>> ELSE <<>>)

NoStore == [persons |-> <<>>, relationships |-> <<>>]
NoAge == [raised |-> "", msg |-> "not called", value |-> 0]

FilterIdle ==
    /\ fpc = "idle" /\ anchor = 0 /\ relatives = <<>> /\ stack = <<>> /\ turn = 0
    /\ before = NoStore

AgeIdle == asOf = None /\ ageOut = NoAge

NoSiblingsCall == [person |-> 0, siblings |-> <<>>]
NavIdle == sibOut = NoSiblingsCall

Init ==
    /\ persons = PersonSeq(NumPersons)
    /\ relationships \in SeqsUpTo(RelSet(PersonIds), MaxRels)
    /\ \E b \in BirthChoices, dead \in SUBSET PersonIds :
          facts = [p \in PersonIds |->
                      ParsedFacts(IF p = 1 THEN b ELSE None, p \in dead, Today)]
    /\ today = Today
    /\ calls = 0
    /\ gen = NoCall
    /\ FilterIdle
    /\ AgeIdle
    /\ NavIdle

AddGenerations ==
    /\ calls < MaxCalls
    /\ LET r == add_generations(persons, relationships, facts, today)
       IN  /\ facts' = r.facts
           /\ gen' = r.out
    /\ calls' = calls + 1
    /\ UNCHANGED <<persons, relationships, today, filterVars, ageVars, navVars>>

Next == AddGenerations

Spec == Init /\ [][Next]_vars

\* ------------------------------------------------------------------ filter_relatives
MissingId == FilterPersons + 1

IdsOf(s) == {s[i] : i \in 1..Len(s)}

RECURSIVE PartnersOfAll(_, _, _)
\* for relative in relatives.copy(): for p in get_partners(root, relative): ...
PartnersOfAll(ps, rels, rs) ==
    IF rs = <<>> THEN <<>>
    ELSE get_partners(ps, rels, Head(rs)) \o PartnersOfAll(ps, rels, Tail(rs))

\* relatives is only appended to inside the two loops and read after them
\* (utils.py:204, 211, 215): entries beyond MaxRelatives are not kept, and a list
\* of MaxRelatives + 1 entries stands for every longer one
Recorded(rs) ==
    IF Len(rs) <= MaxRelatives THEN rs ELSE SubSeq(rs, 1, MaxRelatives + 1)

\* utils.py:193-200
FilterStart ==
    /\ fpc = "idle"
    /\ \E person_id \in FilterIds \cup {MissingId} :
          /\ anchor' = person_id
          /\ before' = [persons |-> persons, relationships |-> relationships]
          /\ IF ~InSeq(person_id, persons)
             THEN /\ fpc' = "ReferenceError"
                  /\ UNCHANGED <<relatives, stack>>
             ELSE LET rel0 == <<find_person_by_id(persons, person_id)>>
                              \o get_siblings(persons, relationships, person_id)
                  IN  /\ relatives' = rel0
                      /\ stack' = rel0
                      /\ fpc' = "descendants"
    /\ UNCHANGED <<persons, facts, relationships, today, genVars, ageVars, navVars, turn>>

\* one iteration of "while len(stack) > 0" (utils.py:202-205)
DescendantStep ==
    /\ fpc = "descendants"
    /\ stack # <<>>
    /\ LET top == stack[Len(stack)]
           cs == get_children(persons, relationships, top)
           rest == SubSeq(stack, 1, Len(stack) - 1) \o cs
       IN  /\ Len(rest) <= MaxStack
           /\ relatives' = Recorded(relatives \o cs)
           /\ stack' = rest
    /\ turn' = 1 - turn
    /\ UNCHANGED <<persons, facts, relationships, today, genVars, ageVars, navVars,
                   fpc, anchor, before>>

\* the descendant loop ends; stack = [person] (utils.py:208)
DescendantsDone ==
    /\ fpc = "descendants"
    /\ stack = <<>>
    /\ stack' = <<anchor>>
    /\ fpc' = "ancestors"
    /\ UNCHANGED <<persons, facts, relationships, today, genVars, ageVars, navVars,
                   anchor, relatives, turn, before>>

\* one iteration of the second "while len(stack) > 0" (utils.py:209-212)
AncestorStep ==
    /\ fpc = "ancestors"
    /\ stack # <<>>
    /\ LET top == stack[Len(stack)]
           pa == get_parents(persons, relationships, top)
           rest == SubSeq(stack, 1, Len(stack) - 1) \o pa
       IN  /\ Len(rest) <= MaxStack
           /\ relatives' = Recorded(relatives \o pa)
           /\ stack' = rest
    /\ turn' = 1 - turn
    /\ UNCHANGED <<persons, facts, relationships, today, genVars, ageVars, navVars,
                   fpc, anchor, before>>

\* a loop iteration that would leave more than MaxStack persons on the stack: the
\* call is followed no further
StackBeyondBound ==
    /\ fpc \in {"descendants", "ancestors"}
    /\ stack # <<>>
    /\ LET top == stack[Len(stack)]
           more == IF fpc = "descendants"
                   THEN get_children(persons, relationships, top)
                   ELSE get_parents(persons, relationships, top)
       IN  Len(stack) - 1 + Len(more) > MaxStack
    /\ fpc' = "beyond bounds"
    /\ UNCHANGED <<persons, facts, relationships, today, genVars, ageVars, navVars,
                   anchor, relatives, stack, turn, before>>

\* FilterFinish without the assertion on root.relationships
FilterFinish_no_relationship_assert ==
    /\ fpc = "ancestors"
    /\ stack = <<>>
    /\ LET all == relatives \o PartnersOfAll(persons, relationships, relatives)
           ps2 == SelectSeq(persons, LAMBDA p : InSeq(p, all))
           rs2 == SelectSeq(relationships,
                            LAMBDA r : r.person1 \in IdsOf(all) /\ r.person2 \in IdsOf(all))
       IN  IF Len(relatives) > MaxRelatives
           THEN fpc' = "beyond bounds" /\ UNCHANGED <<relatives, persons, relationships>>
           ELSE /\ relatives' = all
                /\ persons' = ps2
                /\ relationships' = rs2
                /\ fpc' = IF ~(Len(ps2) > 0) THEN "AssertionError: No persons remain"
                          ELSE "returned"
    /\ UNCHANGED <<facts, today, genVars, ageVars, navVars, anchor, stack, turn, before>>

\* partners, the reduced store and the two assertions (utils.py:215-229)
FilterFinish ==
    /\ fpc = "ancestors"
    /\ stack = <<>>
    /\ LET all == relatives \o PartnersOfAll(persons, relationships, relatives)
           ps2 == SelectSeq(persons, LAMBDA p : InSeq(p, all))
           rs2 == SelectSeq(relationships,
                            LAMBDA r : r.person1 \in IdsOf(all) /\ r.person2 \in IdsOf(all))
       IN  IF Len(relatives) > MaxRelatives
           THEN fpc' = "beyond bounds" /\ UNCHANGED <<relatives, persons, relationships>>
           ELSE /\ relatives' = all
                /\ persons' = ps2
                /\ relationships' = rs2
                /\ fpc' = IF ~(Len(ps2) > 0) THEN "AssertionError: No persons remain"
                          ELSE IF ~(Len(rs2) > 0)
                               THEN "AssertionError: No Relationships remain"
                          ELSE "returned"
    /\ UNCHANGED <<facts, today, genVars, ageVars, navVars, anchor, stack, turn, before>>

InitFilter ==
    /\ persons = PersonSeq(FilterPersons)
    /\ relationships \in SeqsUpTo(RelSet(FilterIds), MaxRels)
    /\ facts = [p \in FilterIds |-> ParsedFacts(None, FALSE, Today)]
    /\ today = Today
    /\ calls = 0
    /\ gen = NoCall
    /\ FilterIdle
    /\ AgeIdle
    /\ NavIdle

NextFilter ==
    \/ FilterStart
    \/ DescendantStep
    \/ DescendantsDone
    \/ AncestorStep
    \/ StackBeyondBound
    \/ FilterFinish

SpecFilter == InitFilter /\ [][NextFilter]_vars

\* filter_relatives runs in the caller's only thread: once called it takes its
\* next step as long as it has one
SpecFilterFair == SpecFilter /\ WF_vars(NextFilter)

\* ------------------------------------------------------------------ navigator spec
GetSiblings ==
    /\ sibOut = NoSiblingsCall
    /\ \E person \in IdsOf(persons) :
          sibOut' = [person |-> person,
                     siblings |-> get_siblings(persons, relationships, person)]
    /\ UNCHANGED <<persons, facts, relationships, today, genVars, filterVars, ageVars>>

NextNav == GetSiblings

SpecNav == InitFilter /\ [][NextNav]_vars

\* ------------------------------------------------------------------ get_age spec
Years == {1989, 1990, 1991, 2020}
Months == {1, 2, 12}
Days == {1, 2, 28}

\* formal dates: year only, year and month, full
Dates ==
    {<<y>> : y \in Years}
    \cup {<<y, m>> : y \in Years, m \in Months}
    \cup {<<y, m, d>> : y \in Years, m \in Months, d \in Days}

InitAge ==
    /\ persons = PersonSeq(1)
    /\ relationships = <<>>
    /\ \E b \in Dates : facts = [p \in {1} |-> ParsedFacts(b, FALSE, Today)]
    /\ today = Today
    /\ asOf \in Dates \cup {None}
    /\ ageOut = NoAge
    /\ calls = 0
    /\ gen = NoCall
    /\ FilterIdle
    /\ NavIdle

GetAge ==
    /\ ageOut = NoAge
    /\ ageOut' = get_age(facts[persons[1]], asOf, today)
    /\ UNCHANGED <<persons, facts, relationships, today, genVars, filterVars, navVars, asOf>>

NextAge == GetAge

SpecAge == InitAge /\ [][NextAge]_vars

\* ------------------------------------------------------------------ get_age on any fact list
MaxBirthFacts == 2

\* the date of a birth fact: absent (a row with a birth place only), partial or full
BirthFactDates == {None, <<1990>>, <<1990, 1, 1>>, <<2020, 12>>}

\* persons with no, one or several birth facts after the maritalStatus fact
BirthFactLists ==
    {[i \in 1..Len(ds) |-> Fact("birth", ds[i], None)] :
        ds \in SeqsUpTo(BirthFactDates, MaxBirthFacts)}

InitBirth ==
    /\ persons = PersonSeq(1)
    /\ relationships = <<>>
    /\ \E bs \in BirthFactLists : facts = [p \in {1} |-> <<MaritalStatus>> \o bs]
    /\ today = Today
    /\ asOf \in Dates \cup {None}
    /\ ageOut = NoAge
    /\ calls = 0
    /\ gen = NoCall
    /\ FilterIdle
    /\ NavIdle

SpecBirth == InitBirth /\ [][NextAge]_vars

\* ------------------------------------------------------------------ observations
GenFacts(p) == FactsOfType(facts[p], "generationNumber")
Generation(p) == PyInt(GenFacts(p)[1].value)
Labeled == {p \in PersonIds : Len(GenFacts(p)) > 0}
DeathCount(fs) == Len(FactsOfType(fs, "death"))
RelRange == {relationships[i] : i \in 1..Len(relationships)}
ParentChildRels == {r \in RelRange : r.type = "parentChild"}

\* the first add_generations call on a store without generationNumber facts returned
FirstCallDone == calls = 1 /\ gen.status = "ok"

RECURSIVE Closure(_)
Closure(S) ==
    LET T == S \cup {q \in PersonIds : \E r \in RelRange :
                        \/ (r.person1 \in S /\ r.person2 = q)
                        \/ (r.person2 \in S /\ r.person1 = q)}
    IN  IF T = S THEN S ELSE Closure(T)

\* persons joined to the first person by a chain of relationships of either type
ConnectedToFirst == Closure({persons[1]})

\* C1 (as claimed): after the call every person connected to the first person by
\* parentChild and/or couple relationships has exactly one generationNumber fact.
C1_ConnectedAllLabeled ==
    calls = 1 => \A p \in ConnectedToFirst : Len(GenFacts(p)) = 1

\* C2: after the call every generationNumber value is >= 0 and the least value
\* over the labeled persons is exactly 0.
C2_MinGenerationZero ==
    FirstCallDone =>
        /\ \A p \in Labeled : Generation(p) >= 0
        /\ \E p \in Labeled : Generation(p) = 0

\* C2 witness: a straggler's traversal reached below the seed traversal's minimum,
\* so the shift that makes the minimum 0 comes from the straggler step.
C2_Witness ==
    /\ FirstCallDone
    /\ gen.via # <<>>
    /\ Generation(persons[1]) > 0
    /\ get_parents(persons, relationships, persons[1]) = <<>>
    /\ \E p \in Labeled : Generation(p) = 0

\* C3 (as claimed): a second call completes normally and leaves every
\* generationNumber value as it was after the first call.
C3_SecondCallIdempotent ==
    calls = 2 =>
        /\ gen.status = "ok"
        /\ gen.stamps = <<>>
        /\ \A p \in PersonIds :
              FactsOfType(gen.before[p], "generationNumber") = GenFacts(p)

\* age(first person), or 0 when it is unavailable
C4_AgeStart ==
    LET a == get_age(gen.before[persons[1]], None, today)
    IN  IF a.raised = "" THEN a.value ELSE 0

\* C4: a dateless death fact is appended to a person exactly when the person ends
\* the call labeled, had no death fact before, and
\* (minGeneration - generation) * 25 + ageStart > 120; never more than one.
C4_SyntheticDeath ==
    FirstCallDone =>
        \A p \in PersonIds :
            LET old == DeathCount(gen.before[p])
                new == DeathCount(facts[p])
                due == /\ Len(GenFacts(p)) > 0
                       /\ old = 0
                       /\ (gen.min_generation - Generation(p)) * 25 + C4_AgeStart > 120
            IN  /\ new = old + (IF due THEN 1 ELSE 0)
                /\ due => facts[p][Len(facts[p])] = Fact("death", None, None)

\* C4 witness: one call in which one person is presumed dead, a second is spared
\* only by the death fact it already had, and a third is labeled but young enough.
C4_Witness ==
    /\ FirstCallDone
    /\ \E p, q, r \in Labeled :
          /\ DeathCount(gen.before[p]) = 0 /\ DeathCount(facts[p]) = 1
          /\ DeathCount(gen.before[q]) = 1 /\ DeathCount(facts[q]) = 1
          /\ (gen.min_generation - Generation(q)) * 25 + C4_AgeStart > 120
          /\ DeathCount(facts[r]) = 0

\* C5 (as claimed): on every parentChild relationship with both ends labeled the
\* child's generation is the parent's plus 1.
ParentChildConsistent ==
    \A r \in ParentChildRels :
        (r.person1 \in Labeled /\ r.person2 \in Labeled)
            => Generation(r.person2) = Generation(r.person1) + 1

C5_ParentChildPlusOne == FirstCallDone => ParentChildConsistent

\* some assignment of generations puts every child one above its parent
Gradable ==
    \E h \in [PersonIds -> 0..(NumPersons - 1)] :
        \A r \in ParentChildRels : h[r.person2] = h[r.person1] + 1

\* C5 (amended): the same, for stores whose parentChild relationships admit any
\* assignment at all with child = parent + 1 on every parentChild relationship.
C5_ParentChildPlusOneWhenGradable ==
    (FirstCallDone /\ Gradable) => ParentChildConsistent

\* C5 witness: the chain 1 -> 2 -> 3 seeded at 1 yields 0, 1, 2.
C5_Witness ==
    /\ FirstCallDone
    /\ Relationship("parentChild", 1, 2) \in RelRange
    /\ Relationship("parentChild", 2, 3) \in RelRange
    /\ Generation(1) = 0 /\ Generation(2) = 1 /\ Generation(3) = 2

\* the other endpoint of the first couple relationship touching p
FirstCoupleOther(p) ==
    LET touching == {i \in 1..Len(relationships) :
                        /\ relationships[i].type = "couple"
                        /\ p \in {relationships[i].person1, relationships[i].person2}}
        k == CHOOSE i \in touching : \A j \in touching : i <= j
    IN  IF relationships[k].person1 = p THEN relationships[k].person2
        ELSE relationships[k].person1

\* C6: a person the straggler step reconnects ends the call with the generation
\* of the other endpoint of the first couple relationship touching it.
C6_PartnerGeneration ==
    FirstCallDone =>
        \A i \in 1..Len(gen.via) :
            LET p == gen.via[i][1] IN
            /\ Len(GenFacts(p)) = 1
            /\ gen.via[i][2] = FirstCoupleOther(p)
            /\ Generation(p) = Generation(FirstCoupleOther(p))

\* C6 witness: a reconnected person whose own parent pushes the minimum down, so
\* that both partners end at a shifted, non-zero generation.
C6_Witness ==
    /\ FirstCallDone
    /\ \E i \in 1..Len(gen.via) :
          /\ gen.via[i][2] = persons[1]
          /\ Generation(gen.via[i][1]) = 1
          /\ Generation(persons[1]) = 1

\* ------------------------------------------------------------------ filter_relatives claims
BeforeRels == {before.relationships[i] : i \in 1..Len(before.relationships)}
BeforeIds == IdsOf(before.persons)
IsParent(p, c) == Relationship("parentChild", p, c) \in BeforeRels

SiblingSet(a) == {s \in BeforeIds \ {a} : \E p \in BeforeIds : IsParent(p, a) /\ IsParent(p, s)}

RECURSIVE Descendants(_)
Descendants(S) ==
    LET T == S \cup {c \in BeforeIds : \E p \in S : IsParent(p, c)}
    IN  IF T = S THEN S ELSE Descendants(T)

RECURSIVE Ancestors(_)
Ancestors(S) ==
    LET T == S \cup {p \in BeforeIds : \E c \in S : IsParent(p, c)}
    IN  IF T = S THEN S ELSE Ancestors(T)

PartnerSet(S) ==
    {q \in BeforeIds : \E m \in S :
        \/ Relationship("couple", m, q) \in BeforeRels
        \/ Relationship("couple", q, m) \in BeforeRels}

\* R = {anchor} + siblings + their descendants + the anchor's ancestors
BloodRelatives == Descendants({anchor} \cup SiblingSet(anchor)) \cup Ancestors({anchor})

\* C7: the persons of a returned store are exactly R and the partners of members
\* of R; partners of partners, children of partners and a sibling's other parent
\* are left out unless they are in that set for another reason.
C7_ResultPersons ==
    fpc = "returned" =>
        IdsOf(persons) = BloodRelatives \cup PartnerSet(BloodRelatives)

\* C7 witness: a returned store that leaves out a sibling's non-shared parent and
\* keeps the sibling.
C7_Witness ==
    /\ fpc = "returned"
    /\ \E s \in SiblingSet(anchor), q \in BeforeIds :
          /\ IsParent(q, s)
          /\ ~IsParent(q, anchor)
          /\ s \in IdsOf(persons)
          /\ q \notin IdsOf(persons)

FilterEnded ==
    fpc \in {"returned", "ReferenceError", "AssertionError: No persons remain",
             "AssertionError: No Relationships remain"}

AnchorIsolated ==
    /\ anchor \in BeforeIds
    /\ \A r \in BeforeRels : r.person1 # anchor /\ r.person2 # anchor

\* C8: a call whose anchor exists but is an endpoint of no relationship ends with
\* the assertion 'No Relationships remain' and returns no store.
C8_IsolatedAnchorFails ==
    (FilterEnded /\ AnchorIsolated) => fpc = "AssertionError: No Relationships remain"

\* C8 witness: such a call has ended, on a store that does hold relationships
\* between other persons.
C8_Witness ==
    /\ FilterEnded
    /\ AnchorIsolated
    /\ Len(before.relationships) >= 2
    /\ persons = <<anchor>>

\* C9: no person is among its own siblings, and b is a sibling of a exactly when
\* a is a sibling of b.
C9_SiblingsSymmetric ==
    sibOut.person # 0 =>
        LET a == sibOut.person
            S == IdsOf(sibOut.siblings)
        IN  /\ a \notin S
            /\ \A b \in IdsOf(persons) :
                  b \in S <=> InSeq(a, get_siblings(persons, relationships, b))

\* C9 witness: get_siblings returned a sibling b for a, and a for b in turn.
C9_Witness ==
    /\ sibOut.person # 0
    /\ sibOut.siblings # <<>>
    /\ sibOut.person \notin IdsOf(sibOut.siblings)
    /\ InSeq(sibOut.person,
             get_siblings(persons, relationships, sibOut.siblings[1]))

\* ------------------------------------------------------------------ get_age claims
BirthDate == FactsOfType(facts[persons[1]], "birth")[1].date
Reference == IF asOf = None THEN today ELSE asOf
Full(d) == IF Len(d) = 1 THEN <<d[1], 1, 1>> ELSE IF Len(d) = 2 THEN <<d[1], d[2], 1>> ELSE d
DayCount == Ordinal(Full(Reference)) - Ordinal(Full(BirthDate))

\* C10: with a dated birth, the age is the floor of the day count over 365 when
\* the reference date is not before the birth, and the call fails with 'event
\* before birth' when it is, even by one day; 1990-01-01 as of 2020-01-01 is
\* 10957 days and gives 30.
C10_AgeFloor ==
    ageOut # NoAge =>
        /\ DayCount >= 0 =>
              /\ ageOut.raised = ""
              /\ 365 * ageOut.value <= DayCount
              /\ DayCount < 365 * (ageOut.value + 1)
        /\ DayCount < 0 =>
              /\ ageOut.raised = "ValueError"
              /\ ageOut.msg = "Event happened before birth!"
        /\ (BirthDate = <<1990, 1, 1>> /\ asOf = <<2020, 1, 1>>) =>
              (DayCount = 10957 /\ ageOut = Returned(30))

\* C10 witness: a reference date one day before the birth has been refused.
C10_Witness ==
    /\ ageOut # NoAge
    /\ DayCount = -1
    /\ ageOut.raised = "ValueError"

\* ------------------------------------------------------------------ get_age claims, any fact list
BirthFacts == FactsOfType(facts[persons[1]], "birth")
BirthUnknown == ageOut.raised = "ValueError" /\ ageOut.msg = "Birth is unknown"

\* C11 (as claimed): get_age fails with 'birth unknown' whenever the person does
\* not have exactly one birth fact that carries a date.
C11_BirthUnknownUnlessExactlyOne ==
    ageOut # NoAge =>
        (~(Len(BirthFacts) = 1 /\ BirthFacts[1].date # None) => BirthUnknown)

\* C11 (amended): get_age fails with 'birth unknown' exactly when the person has
\* no birth fact or the first birth fact carries no date; later birth facts are
\* not looked at.
C11_BirthUnknownByFirstFact ==
    ageOut # NoAge =>
        (BirthUnknown <=> (Len(BirthFacts) = 0 \/ BirthFacts[1].date = None))

\* C11 witness: the three cases of the claim have been through get_age: a dateless
\* first birth fact followed by a dated one was refused.
C11_Witness ==
    /\ ageOut # NoAge
    /\ Len(BirthFacts) = 2
    /\ BirthFacts[1].date = None
    /\ BirthFacts[2].date # None
    /\ BirthUnknown

\* ------------------------------------------------------------------ add_generations, unconnected persons
\* the persons logged as '... is not connected!' in the straggler loop
Warned == {gen.warnings[i] : i \in 1..Len(gen.warnings)}

\* C12: a person the straggler loop finds without a couple
\* relationship, or with an unlabeled partner, does not abort the call; its facts
\* are left exactly as before the call, and the later stragglers and the
\* normalisation are still processed.
C12_UnconnectedLeftAlone ==
    calls = 1 =>
        /\ gen.status = "ok"
        /\ \A p \in Warned : facts[p] = gen.before[p]
        /\ \A p \in PersonIds : p \in Labeled \/ p \in Warned
        /\ \A p \in Labeled : Generation(p) >= 0

\* ------------------------------------------------------------------ add_generations, one stamp per person
\* the persons stamped by the last call, in stamping order
Stamped == [i \in 1..Len(gen.stamps) |-> gen.stamps[i][1]]

\* C13: every add_generations call comes back (the recursive traversal ends, also
\* on cycles), no person is stamped twice within one call, and no person is left
\* with two generationNumber facts.
C13_StampedAtMostOnce ==
    calls >= 1 =>
        /\ gen.status \in {"ok", "ValueError"}
        /\ \A i, j \in 1..Len(Stamped) : Stamped[i] = Stamped[j] => i = j
        /\ \A p \in PersonIds : Len(GenFacts(p)) <= 1

\* C13 witness: a call returned on a store whose relationships close a cycle
\* through parentChild relationships, and everybody on it was stamped.
C13_Witness ==
    /\ FirstCallDone
    /\ \E a, b \in Labeled :
          /\ a # b
          /\ Relationship("parentChild", a, b) \in RelRange
          /\ Relationship("parentChild", b, a) \in RelRange
          /\ \E i, j \in 1..Len(Stamped) : Stamped[i] = a /\ Stamped[j] = b
          /\ Len(GenFacts(a)) = 1 /\ Len(GenFacts(b)) = 1

\* ------------------------------------------------------------------ filter_relatives, termination
BeyondBounds == fpc = "beyond bounds"

\* C14: a filter_relatives call that has entered its loops comes to an end: it
\* returns or fails (or leaves the bounds of the model).
C14_FilterTerminates ==
    (fpc = "descendants") ~> (FilterEnded \/ BeyondBounds)

\* ------------------------------------------------------------------ filter_relatives, the closures
\* relatives before the first loop: the person and its siblings (utils.py:194-195)
Seed == <<find_person_by_id(before.persons, anchor)>>
        \o get_siblings(before.persons, before.relationships, anchor)

\* C15: while the descendant and the ancestor loop run, every person they have
\* added to relatives was not in relatives before; no person is added twice.
C15_OnlyUnseenAdded ==
    fpc \in {"descendants", "ancestors"} =>
        \A i \in (Len(Seed) + 1)..Len(relatives) :
            \A j \in 1..(i - 1) : relatives[j] # relatives[i]

\* ------------------------------------------------------------------ filter_relatives, failed calls
Failed ==
    fpc \in {"ReferenceError", "AssertionError: No persons remain",
             "AssertionError: No Relationships remain"}

\* C17: after a call that raised, root.persons and root.relationships are what
\* they were when the call was made.
C17_FailedCallLeavesStore ==
    Failed => persons = before.persons /\ relationships = before.relationships

\* ------------------------------------------------------------------ add_generations, insertion order
\* the relationship sequence with its entries i and i + 1 exchanged
Exchanged(rels, i) ==
    [k \in 1..Len(rels) |-> IF k = i THEN rels[i + 1]
                            ELSE IF k = i + 1 THEN rels[i]
                            ELSE rels[k]]

\* each person's generationNumber facts
LabelsOf(fa) == [p \in PersonIds |-> FactsOfType(fa[p], "generationNumber")]

\* the labels add_generations gives on the store of the first call, with the
\* relationships i and i + 1 exchanged
LabelsExchanged(i) ==
    LabelsOf(add_generations(persons, Exchanged(relationships, i), gen.before,
                             today).facts)

\* C16 (as claimed): a run on the same persons and the same relationships in
\* another insertion order labels the same persons with the same values; stated
\* for two orders that differ in two neighbouring relationships.
C16_OrderInsignificant ==
    FirstCallDone =>
        \A i \in 1..(Len(relationships) - 1) : LabelsExchanged(i) = LabelsOf(facts)

\* the two relationships are not both couple relationships
KeepsCoupleOrder(i) ==
    relationships[i].type = "parentChild" \/ relationships[i + 1].type = "parentChild"

\* C16 (amended): the same, for stores whose parentChild relationships admit an
\* assignment with child = parent + 1, and for orders that keep the couple
\* relationships in their order relative to each other.
C16_OrderInsignificantWhenGradable ==
    (FirstCallDone /\ Gradable) =>
        \A i \in 1..(Len(relationships) - 1) :
            KeepsCoupleOrder(i) => LabelsExchanged(i) = LabelsOf(facts)

\* C16 witness: a person with two children and a partner; exchanging the two
\* parentChild relationships changes the order of the traversal and not the
\* labels, and everybody is labeled.
C16_Witness ==
    /\ FirstCallDone
    /\ Gradable
    /\ Labeled = PersonIds
    /\ \E i \in 1..(Len(relationships) - 1) :
          /\ relationships[i].type = "parentChild"
          /\ relationships[i + 1].type = "parentChild"
          /\ relationships[i].person1 = relationships[i + 1].person1
          /\ relationships[i].person2 # relationships[i + 1].person2
          /\ Stamped # [k \in 1..Len(Stamped) |->
                          add_generations(persons, Exchanged(relationships, i),
                                          gen.before, today).out.stamps[k][1]]
          /\ LabelsExchanged(i) = LabelsOf(facts)

====
